---- MODULE Spec2Model ----
(***************************************************************************)
(* Model of quiz_app.py, a Streamlit vocabulary quiz.                      *)
(*                                                                         *)
(* Streamlit runs the whole script once per user interaction; the values   *)
(* that survive from one run to the next are st.session_state and the      *)
(* values of the widgets.  One action of the model is one interaction: the *)
(* script run it triggers, together with the run that st.rerun() starts.   *)
(*                                                                         *)
(* A text is a sequence of characters, a character is a one-token string.  *)
(* None is modelled per type: an absent DataFrame is the empty tuple and a *)
(* present one is a one-element tuple; an absent name is the string        *)
(* "None"; a grade is one of the strings "None", "True", "False".          *)
(***************************************************************************)
EXTENDS Integers, Sequences, FiniteSets, TLC

VARIABLES
    session_state,  \* st.session_state: data, total_words, current_index,
                    \* score, results, input_key, last_file
    mode,           \* value of the "Quiz Mode" radio
    uploaded_file,  \* value of the file uploader
    vocabulary,     \* what reading 'vocabulary.xlsx' from disk gives
    shown,          \* what the last script run rendered (messages)
    ev,             \* history: the interaction that triggered the last run
    prev,           \* history: what of session_state that interaction found
    call            \* one call of is_correct looked at on its own: its
                    \* arguments, its local similarity, what it returned

vars == <<session_state, mode, uploaded_file, vocabulary, shown, ev, prev, call>>

-----------------------------------------------------------------------------
(* Bounds *)

MaxRows == 2        \* longest word list in a file
MaxScore == 2       \* score is not incremented beyond this
MaxKey == 2         \* input_key is not incremented beyond this
MaxLen == 2         \* longest text drawn from TextChars

-----------------------------------------------------------------------------
(* Characters and str methods used by clean_text *)

UpperChars == {"A", "B", "N"}
LowerChars == {"a", "b", "e", "k", "l", "n", "o", "p"}
HangulChars == {"sa", "gwa", "chaek", "jeuk"}   \* stand-ins for single syllables
DigitChars == {"1"}
SpaceChars == {" "}
PunctChars == {"!", "."}

isalpha(c) == c \in UpperChars \cup LowerChars \cup HangulChars
isdigit(c) == c \in DigitChars
isspace(c) == c \in SpaceChars

LowerChar(c) ==
    CASE c = "A" -> "a"
      [] c = "B" -> "b"
      [] c = "N" -> "n"
      [] OTHER -> c

lower(text) == [i \in 1..Len(text) |-> LowerChar(text[i])]

RECURSIVE lstrip(_)
lstrip(text) ==
    IF text # <<>> /\ isspace(Head(text)) THEN lstrip(Tail(text)) ELSE text

RECURSIVE rstrip(_)
rstrip(text) ==
    IF text # <<>> /\ isspace(text[Len(text)])
    THEN rstrip(SubSeq(text, 1, Len(text) - 1))
    ELSE text

strip(text) == rstrip(lstrip(text))

KeptChar(c) == isalpha(c) \/ isdigit(c) \/ isspace(c)

\* a clean_text that drops every space
clean_text_nospace(text) ==
    SelectSeq(text, LAMBDA c : isalpha(c) \/ isdigit(c))

\* a clean_text that forgets to strip
clean_text_nostrip(text) == SelectSeq(text, KeptChar)

clean_text(text) == strip(SelectSeq(text, KeptChar))

-----------------------------------------------------------------------------
(* difflib.SequenceMatcher(None, a, b).ratio(), as called by is_correct.   *)
(* Indices are 0-based and ranges half-open, as in difflib; texts here are *)
(* far shorter than the 200 characters at which autojunk starts.           *)

\* the length of the longest block a[i:i+k] == b[j:j+k] within the ranges
RECURSIVE BlockAt(_, _, _, _, _, _)
BlockAt(a, b, i, j, ahi, bhi) ==
    IF i < ahi /\ j < bhi /\ a[i + 1] = b[j + 1]
    THEN 1 + BlockAt(a, b, i + 1, j + 1, ahi, bhi)
    ELSE 0

\* the blocks <<i, j, k>>, k > 0, that cannot be extended to the right
Blocks(a, b, alo, ahi, blo, bhi) ==
    {<<p[1], p[2], BlockAt(a, b, p[1], p[2], ahi, bhi)>> :
        p \in {q \in (alo..(ahi - 1)) \X (blo..(bhi - 1)) :
                    a[q[1] + 1] = b[q[2] + 1]}}

\* of the blocks bs the longest; of those the one starting earliest in a; of
\* those the one starting earliest in b
Longest(bs, alo, blo) ==
    IF bs = {} THEN <<alo, blo, 0>>
    ELSE CHOOSE m \in bs : \A n \in bs :
            \/ m[3] > n[3]
            \/ m[3] = n[3] /\ m[1] < n[1]
            \/ m[3] = n[3] /\ m[1] = n[1] /\ m[2] <= n[2]

find_longest_match(a, b, alo, ahi, blo, bhi) ==
    Longest(Blocks(a, b, alo, ahi, blo, bhi), alo, blo)

\* get_matching_blocks, summed: the size of the longest block m = <<i, j, k>>
\* and of the blocks found left and right of it
RECURSIVE matches(_, _, _, _, _, _)
MatchesAround(a, b, alo, ahi, blo, bhi, m) ==
    IF m[3] = 0 THEN 0
    ELSE m[3]
         + (IF alo < m[1] /\ blo < m[2]
            THEN matches(a, b, alo, m[1], blo, m[2]) ELSE 0)
         + (IF m[1] + m[3] < ahi /\ m[2] + m[3] < bhi
            THEN matches(a, b, m[1] + m[3], ahi, m[2] + m[3], bhi) ELSE 0)

matches(a, b, alo, ahi, blo, bhi) ==
    MatchesAround(a, b, alo, ahi, blo, bhi,
                  find_longest_match(a, b, alo, ahi, blo, bhi))

\* ratio() is 2.0 * matches / length, 1.0 when length is 0; kept as the
\* fraction <<numerator, denominator>>
ratio(a, b) ==
    IF Len(a) + Len(b) = 0 THEN <<1, 1>>
    ELSE <<2 * matches(a, b, 0, Len(a), 0, Len(b)), Len(a) + Len(b)>>

\* threshold=0.85 as a fraction
ThresholdNum == 85
ThresholdDen == 100

\* similarity >= threshold
AtLeastThreshold(similarity) ==
    similarity[1] * ThresholdDen >= ThresholdNum * similarity[2]

\* is_correct on the two cleaned texts
Matches(user_input, answer) ==
    IF user_input = answer THEN TRUE
    ELSE AtLeastThreshold(ratio(user_input, answer))

is_correct(user_input, answer) ==
    Matches(clean_text(lower(user_input)), clean_text(lower(answer)))

-----------------------------------------------------------------------------
(* Files and load_data *)

apple == <<"a", "p", "p", "l", "e">>
book == <<"b", "o", "o", "k">>
sagwa == <<"sa", "gwa">>
chaek == <<"chaek">>

\* the i-th row of a word list (1-based)
VocabularyRow(i) ==
    IF i % 2 = 1 THEN [English |-> apple, Korean |-> sagwa]
    ELSE [English |-> book, Korean |-> chaek]

WordList(n) == [i \in 1..n |-> VocabularyRow(i)]

\* what pd.read_excel makes of a file: it raises, or gives a DataFrame
Unreadable == [readable |-> FALSE, columns |-> {}, rows |-> <<>>]
Sheet(columns, n) == [readable |-> TRUE, columns |-> columns, rows |-> WordList(n)]

File(name, content) == [name |-> name, content |-> content]

\* the files a learner uploads: word lists of different lengths (one of them
\* empty), a sheet without the Korean column, a file that is not a workbook
Files ==
    {File("a.xlsx", Sheet({"English", "Korean"}, MaxRows)),
     File("a.xlsx", Sheet({"English", "Korean"}, 0)),
     File("a.xlsx", Unreadable),
     File("b.xlsx", Sheet({"English", "Korean"}, 1)),
     File("b.xlsx", Sheet({"English"}, 1))}

\* 'vocabulary.xlsx' in the working directory: absent, or a word list
DefaultFiles == {Unreadable, Sheet({"English", "Korean"}, MaxRows)}

Msg(kind, what, detail) == [kind |-> kind, what |-> what, detail |-> detail]

\* load_data: the DataFrame (<<>> for None) and what st.error showed
load_data(content) ==
    IF ~content.readable
    THEN [df |-> <<>>, out |-> <<Msg("error", "Error loading file", <<>>)>>]
    ELSE IF "English" \notin content.columns \/ "Korean" \notin content.columns
    THEN [df |-> <<>>,
          out |-> <<Msg("error", "Excel must have 'English' and 'Korean' columns.", <<>>)>>]
    ELSE [df |-> <<[columns |-> content.columns, rows |-> content.rows]>>,
          out |-> <<>>]

len(df) == Len(df.rows)

NoneList(n) == [i \in 1..n |-> "None"]

-----------------------------------------------------------------------------
(* The script, block by block.  Each block maps the session state to the   *)
(* session state after it, the messages it rendered, and whether it called *)
(* st.rerun() (or raised), which ends the run.                             *)

\* Session State Initialization.  total_words is set by the first load and
\* read only after it (0 stands for "not set"), last_file is read with
\* .get(), which gives None before the first upload.  show_next, which the
\* script sets on a submission and never reads, is left out.
FreshSession ==
    [data |-> <<>>, current_index |-> 0, score |-> 0, results |-> <<>>,
     input_key |-> 0, total_words |-> 0, last_file |-> "None"]

Step(s, out, stop) == [s |-> s, out |-> out, stop |-> stop]

\* a load that keeps the position and the score of the previous word list
LoadUploaded_keep(s, df, name) ==
    [s EXCEPT !.data = <<df>>,
              !.total_words = len(df),
              !.results = NoneList(len(df)),
              !.last_file = name]

\* the session state a successfully loaded upload leaves
LoadUploaded(s, df, name) ==
    [s EXCEPT !.data = <<df>>,
              !.total_words = len(df),
              !.current_index = 0,
              !.score = 0,
              !.results = NoneList(len(df)),
              !.last_file = name]

\* an upload that clears the session before it knows the load worked
Uploaded_clear(s, name, r) ==
    IF r.df # <<>>
    THEN Step(LoadUploaded(s, r.df[1], name), r.out, "rerun")
    ELSE Step([s EXCEPT !.current_index = 0,
                        !.score = 0,
                        !.results = NoneList(s.total_words)],
              r.out, "")

\* "if df is not None:" of the upload block, r being what load_data gave
Uploaded(s, name, r) ==
    IF r.df # <<>>
    THEN Step(LoadUploaded(s, r.df[1], name), r.out, "rerun")
    ELSE Step(s, r.out, "")

\* "if uploaded_file:" block
UploadBlock(s, f) ==
    IF f = <<>> THEN Step(s, <<>>, "")
    ELSE IF s.data = <<>> \/ s.last_file # f[1].name
    THEN Uploaded(s, f[1].name, load_data(f[1].content))
    ELSE Step(s, <<>>, "")

\* "if df is not None:" of the default load, r being what load_data gave
DefaultLoaded(s, r) ==
    IF r.df # <<>>
    THEN Step([s EXCEPT !.data = r.df,
                        !.total_words = len(r.df[1]),
                        !.results = NoneList(len(r.df[1]))],
              r.out, "")
    ELSE Step(s, r.out, "")

\* a default load that runs whenever the script runs
DefaultLoad_always(s, vocab) ==
    DefaultLoaded(s, load_data(vocab))

\* "Default Load (if no file uploaded)" block
DefaultLoad(s, vocab) ==
    IF s.data = <<>> THEN DefaultLoaded(s, load_data(vocab))
    ELSE Step(s, <<>>, "")

\* the clicks of one run; nav is the index of the clicked question button,
\* -1 when none was clicked
NoClicks ==
    [nav |-> -1, reset |-> FALSE, audio |-> FALSE, hint |-> FALSE,
     hint_text |-> "", submitted |-> FALSE, user_meaning |-> <<>>,
     user_spelling |-> <<>>, next |-> FALSE]

\* a click on a question button that leaves the form as it is
NavClick_samekey(s, i) ==
    [s EXCEPT !.current_index = i]

\* a click on question button i
NavClick(s, i) ==
    [s EXCEPT !.current_index = i,
              !.input_key = s.input_key + 1]

\* a reset that forgets the score
ResetClick_score(s) ==
    [s EXCEPT !.current_index = 0,
              !.results = NoneList(s.total_words),
              !.input_key = s.input_key + 1]

\* a click on "Reset Quiz"
ResetClick(s) ==
    [s EXCEPT !.current_index = 0,
              !.score = 0,
              !.results = NoneList(s.total_words),
              !.input_key = s.input_key + 1]

\* "Navigation Buttons" block, with the Reset Quiz button
Sidebar(s, w) ==
    IF s.data = <<>> THEN Step(s, <<>>, "")
    ELSE IF w.nav \in 0..(s.total_words - 1)
    THEN Step(NavClick(s, w.nav), <<>>, "rerun")
    ELSE IF w.reset
    THEN Step(ResetClick(s), <<>>, "rerun")
    ELSE Step(s, <<>>, "")

Field(label, value) == [label |-> label, value |-> value]

\* a Dictation grade that accepts one right field
DictationRight_either(correct_meaning, correct_spelling) ==
    correct_meaning \/ correct_spelling

\* is_right in Dictation mode
DictationRight(correct_meaning, correct_spelling) ==
    correct_meaning /\ correct_spelling

\* feedback that names the fields the wrong way round
DictationMsg_swapped(correct_spelling, correct_meaning, english_word, korean_meaning) ==
    (IF ~correct_meaning THEN <<Field("Spelling", english_word)>> ELSE <<>>)
        \o (IF ~correct_spelling THEN <<Field("Meaning", korean_meaning)>> ELSE <<>>)

\* msg, the fields the Dictation feedback names
DictationMsg(correct_spelling, correct_meaning, english_word, korean_meaning) ==
    (IF ~correct_spelling THEN <<Field("Spelling", english_word)>> ELSE <<>>)
        \o (IF ~correct_meaning THEN <<Field("Meaning", korean_meaning)>> ELSE <<>>)

\* what the Dictation branch renders
DictationCheck(is_right, msg) ==
    [is_right |-> is_right,
     out |-> IF is_right THEN <<Msg("success", "Perfect!", <<>>)>>
             ELSE <<Msg("error", "Incorrect.", msg)>>]

\* what the Reading branch renders
ReadingCheck(is_right, korean_meaning) ==
    [is_right |-> is_right,
     out |-> IF is_right THEN <<Msg("success", "Correct!", <<>>)>>
             ELSE <<Msg("error", "Incorrect. Answer:",
                        <<Field("Answer", korean_meaning)>>)>>]

\* "Check logic": what the submit branch concludes and renders;
\* correct_spelling is computed in Dictation mode only
Check(is_dictation, correct_meaning, correct_spelling, english_word, korean_meaning) ==
    IF is_dictation
    THEN DictationCheck(DictationRight(correct_meaning, correct_spelling),
                        DictationMsg(correct_spelling, correct_meaning,
                                     english_word, korean_meaning))
    ELSE ReadingCheck(correct_meaning, korean_meaning)

\* Grading that counts every correct submission
Grading_tally(s, idx, is_right) ==
    IF is_right
    THEN [s EXCEPT !.score = s.score + 1,
                   !.results[idx + 1] = "True"]
    ELSE [s EXCEPT !.results[idx + 1] = "False"]

\* Grading that keeps the first grade of a question
Grading_locked(s, idx, is_right) ==
    IF s.results[idx + 1] # "None" THEN s
    ELSE IF is_right
    THEN [s EXCEPT !.score = s.score + 1,
                   !.results[idx + 1] = "True"]
    ELSE [s EXCEPT !.results[idx + 1] = "False"]

\* "Grading": results and score after a submission on question idx
\* (show_next is not modelled)
Grading(s, idx, is_right) ==
    IF is_right
    THEN [s EXCEPT !.score = IF s.results[idx + 1] # "True"
                             THEN s.score + 1 ELSE s.score,
                   !.results[idx + 1] = "True"]
    ELSE [s EXCEPT !.results[idx + 1] = "False"]

\* a Next Question button that clears the form also on the last question
NextQuestion_clear(s) ==
    IF s.current_index < s.total_words - 1
    THEN Step([s EXCEPT !.current_index = s.current_index + 1,
                        !.input_key = s.input_key + 1],
              <<>>, "rerun")
    ELSE Step([s EXCEPT !.input_key = s.input_key + 1],
              <<Msg("balloons", "", <<>>),
                Msg("success", "Quiz Finished! Final Score:",
                    <<Field("score", s.score), Field("total", s.total_words)>>)>>,
              "")

\* a Next Question button that advances without renaming the form
NextQuestion_samekey(s) ==
    IF s.current_index < s.total_words - 1
    THEN Step([s EXCEPT !.current_index = s.current_index + 1],
              <<>>, "rerun")
    ELSE Step(s,
              <<Msg("balloons", "", <<>>),
                Msg("success", "Quiz Finished! Final Score:",
                    <<Field("score", s.score), Field("total", s.total_words)>>)>>,
              "")

\* "Next Navigation": the Next Question button
NextQuestion(s) ==
    IF s.current_index < s.total_words - 1
    THEN Step([s EXCEPT !.current_index = s.current_index + 1,
                        !.input_key = s.input_key + 1],
              <<>>, "rerun")
    ELSE Step(s,
              <<Msg("balloons", "", <<>>),
                Msg("success", "Quiz Finished! Final Score:",
                    <<Field("score", s.score), Field("total", s.total_words)>>)>>,
              "")

\* block a, then block b run from a.s
Then(a, b) == Step(b.s, a.out \o b.out, b.stop)

\* "Audio Controls": the Play Word and Hint buttons
AudioControls(s, w) ==
    Step(s,
         (IF w.audio THEN <<Msg("audio", "word", <<>>)>> ELSE <<>>)
            \o (IF w.hint
                THEN <<Msg("info", "Hint:", <<Field("definition", w.hint_text)>>),
                       Msg("audio", "definition", <<>>)>>
                ELSE <<>>),
         "")

\* "if submitted:" with chk being what the check logic concluded
Graded(s, chk) == Step(Grading(s, s.current_index, chk.is_right), chk.out, "")

\* "Input Form"
Form(s, m, w, row) ==
    IF w.submitted
    THEN Graded(s, Check(m = "Dictation (Listen -> Write)",
                         is_correct(w.user_meaning, row.Korean),
                         is_correct(w.user_spelling, row.English),
                         row.English, row.Korean))
    ELSE Step(s, <<>>, "")

\* the Next Question button below the form, fm being the form's step
NextButton(fm, w) == IF w.next THEN Then(fm, NextQuestion(fm.s)) ELSE fm

\* "Main App" block
Main(s, m, w) ==
    IF s.data = <<>>
    THEN Step(s, <<Msg("warning", "No vocabulary data loaded. Please upload a file.", <<>>)>>, "")
    ELSE IF s.current_index >= len(s.data[1])
    THEN \* data.iloc[idx] raises IndexError
         Step(s, <<Msg("exception", "IndexError", <<>>)>>, "raise")
    ELSE Then(AudioControls(s, w),
              NextButton(Form(s, m, w, s.data[1].rows[s.current_index + 1]), w))

\* one run of the script with session state s, mode m, uploaded file f and
\* clicks w; st.rerun() starts the script again with no click.  Each
\* After... takes the step made of the blocks run so far.
RECURSIVE Run(_, _, _, _, _)

AfterMain(mn, m, f, vocab) ==
    IF mn.stop = "rerun" THEN Run(mn.s, m, f, vocab, NoClicks)
    ELSE [s |-> mn.s, out |-> mn.out]

AfterSidebar(sb, m, f, vocab, w) ==
    IF sb.stop = "rerun" THEN Run(sb.s, m, f, vocab, NoClicks)
    ELSE AfterMain(Then(sb, Main(sb.s, m, w)), m, f, vocab)

AfterDefaultLoad(dl, m, f, vocab, w) ==
    AfterSidebar(Then(dl, Sidebar(dl.s, w)), m, f, vocab, w)

AfterUploadBlock(up, m, f, vocab, w) ==
    IF up.stop = "rerun" THEN Run(up.s, m, f, vocab, NoClicks)
    ELSE AfterDefaultLoad(Then(up, DefaultLoad(up.s, vocab)), m, f, vocab, w)

Run(s, m, f, vocab, w) ==
    AfterUploadBlock(UploadBlock(s, f), m, f, vocab, w)

-----------------------------------------------------------------------------
(* The interactions *)

Modes == {"Reading (Eng -> Kor)", "Dictation (Listen -> Write)"}
DefaultMode == "Reading (Eng -> Kor)"

\* user_spelling = None in Reading mode; str(None) is "None"
NoSpelling == <<"N", "o", "n", "e">>

\* texts a learner types into a field
MeaningAnswers == {sagwa, <<"sa", " ", "gwa">>, <<"chaek", ".">>}
DictationMeanings == {sagwa, <<"chaek", ".">>}
SpellingAnswers == {<<"a", "p", "l", "e">>, <<"B", "o", "o", "k", "!">>}

HintTexts == {"definition", "No definition found."}

\* the indices i of the question buttons nav_i the sidebar renders
NavButtons(s) ==
    IF s.data = <<>> THEN {} ELSE 0..(s.total_words - 1)

\* the widgets the last run rendered
SidebarShown == session_state.data # <<>>
MainShown ==
    /\ session_state.data # <<>>
    /\ session_state.current_index < len(session_state.data[1])

\* what the history keeps of the session state an interaction found: the
\* scalar fields and the grade of the question then shown
Seen(s) ==
    [loaded |-> s.data # <<>>,
     total_words |-> s.total_words,
     current_index |-> s.current_index,
     score |-> s.score,
     input_key |-> s.input_key,
     last_file |-> s.last_file,
     grade |-> IF s.current_index < Len(s.results)
               THEN s.results[s.current_index + 1] ELSE "None"]

\* a call of is_correct before it returns; similarity is <<>> until the
\* fuzzy match assigns it
Called(user_input, answer) ==
    [user_input |-> user_input, answer |-> answer,
     similarity |-> <<>>, returned |-> "None"]

\* no call is looked at while the script runs
NoCall == Called(<<>>, <<>>)

\* the script run triggered by an interaction, up to the end of the last rerun
Interact(op, m, f, w) ==
    \E r \in {Run(session_state, m, f, vocabulary, w)} :
    /\ r.s.score <= MaxScore
    /\ r.s.input_key <= MaxKey
    /\ session_state' = r.s
    /\ mode' = m
    /\ uploaded_file' = f
    /\ shown' = r.out
    /\ ev' = [op |-> op, w |-> w]
    /\ prev' = Seen(session_state)
    /\ UNCHANGED <<vocabulary, call>>

Init ==
    /\ vocabulary \in DefaultFiles
    /\ mode = DefaultMode
    /\ uploaded_file = <<>>
    /\ LET r == Run(FreshSession, DefaultMode, <<>>, vocabulary, NoClicks) IN
        /\ session_state = r.s
        /\ shown = r.out
    /\ ev = [op |-> "start", w |-> NoClicks]
    /\ prev = Seen(FreshSession)
    /\ call = NoCall

Upload(file) ==
    /\ file \in Files
    /\ Interact("upload", mode, <<file>>, NoClicks)

RemoveFile ==
    /\ uploaded_file # <<>>
    /\ Interact("remove", mode, <<>>, NoClicks)

\* a mode change that also restarts the quiz
SetMode_reset(m) ==
    /\ m # mode
    /\ Interact("mode", m, uploaded_file, [NoClicks EXCEPT !.reset = TRUE])

SetMode(m) ==
    /\ m # mode
    /\ Interact("mode", m, uploaded_file, NoClicks)

NavButton(i) ==
    /\ SidebarShown
    /\ i \in NavButtons(session_state)
    /\ Interact("nav", mode, uploaded_file, [NoClicks EXCEPT !.nav = i])

ResetQuiz ==
    /\ SidebarShown
    /\ Interact("reset", mode, uploaded_file, [NoClicks EXCEPT !.reset = TRUE])

PlayAudio ==
    /\ MainShown
    /\ Interact("audio", mode, uploaded_file, [NoClicks EXCEPT !.audio = TRUE])

Hint(text) ==
    /\ MainShown
    /\ Interact("hint", mode, uploaded_file,
                [NoClicks EXCEPT !.hint = TRUE, !.hint_text = text])

Submit(user_meaning, user_spelling) ==
    /\ MainShown
    /\ Interact("submit", mode, uploaded_file,
                [NoClicks EXCEPT !.submitted = TRUE,
                                 !.user_meaning = user_meaning,
                                 !.user_spelling = user_spelling])

SubmitReading == 
    /\ mode = "Reading (Eng -> Kor)"
    /\ \E user_meaning \in MeaningAnswers : Submit(user_meaning, NoSpelling)

SubmitDictation ==
    /\ mode = "Dictation (Listen -> Write)"
    /\ \E user_meaning \in DictationMeanings, user_spelling \in SpellingAnswers :
            Submit(user_meaning, user_spelling)

Next_Question ==
    /\ MainShown
    /\ Interact("next", mode, uploaded_file, [NoClicks EXCEPT !.next = TRUE])

Next ==
    \/ \E file \in Files : Upload(file)
    \/ RemoveFile
    \/ \E m \in Modes : SetMode(m)
    \/ \E i \in 0..(MaxRows - 1) : NavButton(i)
    \/ ResetQuiz
    \/ PlayAudio
    \/ \E text \in HintTexts : Hint(text)
    \/ SubmitReading
    \/ SubmitDictation
    \/ Next_Question

Spec == Init /\ [][Next]_vars

-----------------------------------------------------------------------------
(* is_correct on its own: the arguments are drawn in the initial state and *)
(* the one action is the call.                                             *)

TextChars == {"a", "A", "b", " ", "!", "1"}

\* texts of up to MaxLen characters, and some longer ones
ShortTexts == UNION {[1..n -> TextChars] : n \in 0..MaxLen}
LongTexts ==
    {<<" ", "A", "!", "b", " ">>,
     <<"a", "b", "a">>, <<"b", "e", "a">>,
     <<"a", "a", "a", "a", "a", "b", "a">>,
     <<"a", "a", "b", "a", "a", "a", "b">>}
Texts == ShortTexts \cup LongTexts

\* the body of is_correct run on c: the two arguments cleaned, the fast
\* path, the fuzzy match
Returned(c, user_input, answer) ==
    IF user_input = answer
    THEN [c EXCEPT !.returned = "True"]
    ELSE [c EXCEPT !.similarity = ratio(user_input, answer),
                   !.returned = IF AtLeastThreshold(ratio(user_input, answer))
                                THEN "True" ELSE "False"]

InitText ==
    /\ vocabulary = Unreadable
    /\ mode = DefaultMode
    /\ uploaded_file = <<>>
    /\ session_state = FreshSession
    /\ shown = <<>>
    /\ ev = [op |-> "start", w |-> NoClicks]
    /\ prev = Seen(FreshSession)
    /\ \E user_input \in Texts, answer \in Texts :
            call = Called(user_input, answer)

CallIsCorrect ==
    /\ call.returned = "None"
    /\ call' = Returned(call, clean_text(lower(call.user_input)),
                        clean_text(lower(call.answer)))
    /\ UNCHANGED <<session_state, mode, uploaded_file, vocabulary, shown, ev, prev>>

NextText == CallIsCorrect

SpecText == InitText /\ [][NextText]_vars

-----------------------------------------------------------------------------
(* Properties *)

\* the number of questions graded correct
CorrectCount(results) ==
    Cardinality({i \in 1..Len(results) : results[i] = "True"})

\* the last interaction was a submission; it was graded on question
\* session_state.current_index of session_state.data
Submitted == ev.op = "submit"
SubmitIdx == session_state.current_index
SubmitRow == session_state.data[1].rows[SubmitIdx + 1]
is_dictation == (mode = "Dictation (Listen -> Write)")

\* the submission was concluded right / wrong, as the rendered feedback says
SaidRight ==
    \E n \in 1..Len(shown) :
        shown[n].kind = "success" /\ shown[n].what \in {"Correct!", "Perfect!"}
SaidWrong ==
    \E n \in 1..Len(shown) :
        shown[n].kind = "error"
            /\ shown[n].what \in {"Incorrect.", "Incorrect. Answer:"}

\* C1: score equals the number of questions whose grade is Correct
\* (results[i] is True), in every reachable state.
C1_ScoreIsCorrectCount ==
    session_state.score = CorrectCount(session_state.results)

\* C2: a submission graded Incorrect on a question whose grade is Correct
\* decrements score by exactly 1, and score never goes below 0.
C2_IncorrectDecrements ==
    /\ session_state.score >= 0
    /\ (Submitted /\ SaidWrong /\ prev.grade = "True")
            => session_state.score = prev.score - 1

\* C3: a submission graded Correct on a question whose grade is already
\* Correct leaves score unchanged and the grade Correct.
C3_ResubmitCorrect ==
    (Submitted /\ SaidRight /\ prev.grade = "True")
        => /\ session_state.score = prev.score
           /\ session_state.results[SubmitIdx + 1] = "True"

C3_Witness ==
    /\ Submitted /\ SaidRight
    /\ prev.grade = "True"
    /\ prev.score = 1
    /\ session_state.score = 1
    /\ session_state.results[SubmitIdx + 1] = "True"

\* C4: whenever a dataset is loaded, 0 <= current_index <= total_words - 1,
\* for every dataset that load accepts, so that data.iloc[current_index] is
\* defined.
C4_IndexInRange ==
    session_state.data # <<>>
        => /\ 0 <= session_state.current_index
           /\ session_state.current_index <= session_state.total_words - 1
           /\ session_state.current_index < len(session_state.data[1])

\* C5: reset sets current_index to 0, score to 0 and every grade to
\* Unanswered, one entry per item, increments input_key by one, and leaves
\* the dataset and total_words unchanged.
C5_Reset ==
    [][ev'.op = "reset"
        => /\ session_state'.current_index = 0
           /\ session_state'.score = 0
           /\ Len(session_state'.results) = len(session_state.data[1])
           /\ \A i \in 1..Len(session_state'.results) :
                    session_state'.results[i] = "None"
           /\ session_state'.input_key = session_state.input_key + 1
           /\ session_state'.data = session_state.data
           /\ session_state'.total_words = session_state.total_words]_vars

C5_Witness ==
    /\ ev.op = "reset"
    /\ prev.current_index > 0
    /\ prev.score > 0
    /\ prev.grade = "False"
    /\ session_state.current_index = 0
    /\ session_state.score = 0
    /\ session_state.input_key = prev.input_key + 1

\* the run reported the end of the quiz with this score and total
Completed(score, total) ==
    \E n \in 1..Len(shown) :
        shown[n] = [kind |-> "success", what |-> "Quiz Finished! Final Score:",
                    detail |-> <<[label |-> "score", value |-> score],
                                 [label |-> "total", value |-> total]>>]

\* C6: next at the last index reports completion and leaves the session
\* state unchanged, so that invoking it again reports the same and leaves
\* the same state.
C6_NextAtEnd ==
    [][(/\ ev'.op = "next"
        /\ session_state.current_index = session_state.total_words - 1)
        => /\ session_state' = session_state
           /\ Completed(session_state.score, session_state.total_words)']_vars

C6_Witness ==
    /\ ev.op = "next"
    /\ prev.current_index = prev.total_words - 1
    /\ prev.total_words > 1
    /\ prev.score > 0
    /\ session_state.current_index = prev.current_index
    /\ session_state.input_key = prev.input_key
    /\ Completed(prev.score, prev.total_words)

\* C7: a newly uploaded file that loads replaces the session: current_index
\* 0, score 0, one Unanswered grade per item of the new dataset.
C7_LoadReplaces ==
    [][(/\ ev'.op = "upload"
        /\ load_data(uploaded_file'[1].content).df # <<>>
        /\ \/ session_state.data = <<>>
           \/ session_state.last_file # uploaded_file'[1].name)
        => /\ session_state'.data[1].rows = uploaded_file'[1].content.rows
           /\ session_state'.total_words = Len(uploaded_file'[1].content.rows)
           /\ session_state'.current_index = 0
           /\ session_state'.score = 0
           /\ Len(session_state'.results) = Len(uploaded_file'[1].content.rows)
           /\ \A i \in 1..Len(session_state'.results) :
                    session_state'.results[i] = "None"]_vars

C7_Witness ==
    /\ ev.op = "upload"
    /\ load_data(uploaded_file[1].content).df # <<>>
    /\ prev.loaded
    /\ prev.last_file # uploaded_file[1].name
    /\ prev.current_index > 0
    /\ prev.score > 0
    /\ prev.total_words > session_state.total_words
    /\ session_state.total_words > 0
    /\ session_state.data[1].rows = uploaded_file[1].content.rows
    /\ session_state.score = 0

\* the uploader holds a file that load_data rejects
Rejected ==
    /\ uploaded_file # <<>>
    /\ load_data(uploaded_file[1].content).df = <<>>

NoException == \A n \in 1..Len(shown) : shown[n].kind # "exception"

\* C8: an upload that fails to load while a session exists leaves the
\* session state unchanged, and submit and navigation keep working with the
\* rejected file in the uploader.
C8_FailedLoad ==
    [][/\ (ev'.op = "upload" /\ Rejected' /\ session_state.data # <<>>)
            => /\ session_state' = session_state
               /\ session_state.current_index < len(session_state.data[1])
                    => NoException'
       /\ (ev'.op = "submit" /\ Rejected')
            => /\ session_state'.results[session_state.current_index + 1]
                    \in {"True", "False"}
               /\ session_state'.data = session_state.data
       /\ (ev'.op = "nav" /\ Rejected')
            => /\ session_state'.current_index = ev'.w.nav
               /\ session_state'.data = session_state.data
               /\ session_state'.results = session_state.results
               /\ session_state'.score = session_state.score]_vars

C8_Witness ==
    /\ ev.op = "upload"
    /\ Rejected
    /\ prev.loaded
    /\ prev.score > 0
    /\ prev.current_index > 0
    /\ session_state.score = prev.score
    /\ session_state.current_index = prev.current_index
    /\ session_state.last_file = prev.last_file
    /\ NoException

\* C9: the grade a submission records is Correct, in Reading, iff the
\* meaning matches the item's meaning and, in Dictation, iff the spelling
\* matches the term and the meaning matches the meaning.
C9_GradeByMode ==
    Submitted
        => LET meaning_ok == is_correct(ev.w.user_meaning, SubmitRow.Korean)
               spelling_ok == is_correct(ev.w.user_spelling, SubmitRow.English)
               grade == session_state.results[SubmitIdx + 1]
           IN  /\ grade \in {"True", "False"}
               /\ ~is_dictation => (grade = "True" <=> meaning_ok)
               /\ is_dictation => (grade = "True" <=> (meaning_ok /\ spelling_ok))

C9_Witness ==
    /\ Submitted
    /\ is_dictation
    /\ is_correct(ev.w.user_meaning, SubmitRow.Korean)
    /\ ~is_correct(ev.w.user_spelling, SubmitRow.English)
    /\ session_state.results[SubmitIdx + 1] = "False"

\* the Dictation feedback of the last run and the fields it names
Feedback ==
    {shown[n] : n \in {n \in 1..Len(shown) :
                        shown[n].kind = "error" /\ shown[n].what = "Incorrect."}}
FeedbackFields ==
    UNION {{m.detail[k] : k \in 1..Len(m.detail)} : m \in Feedback}

\* C10: in Dictation mode the feedback of an Incorrect submission contains
\* the expected spelling iff the spelling check failed and the expected
\* meaning iff the meaning check failed, and it names at least one field.
C10_DictationFeedback ==
    (Submitted /\ is_dictation /\ session_state.results[SubmitIdx + 1] = "False")
        => LET meaning_ok == is_correct(ev.w.user_meaning, SubmitRow.Korean)
               spelling_ok == is_correct(ev.w.user_spelling, SubmitRow.English)
           IN  /\ Cardinality(Feedback) = 1
               /\ FeedbackFields # {}
               /\ FeedbackFields \subseteq
                    {[label |-> "Spelling", value |-> SubmitRow.English],
                     [label |-> "Meaning", value |-> SubmitRow.Korean]}
               /\ [label |-> "Spelling", value |-> SubmitRow.English]
                        \in FeedbackFields <=> ~spelling_ok
               /\ [label |-> "Meaning", value |-> SubmitRow.Korean]
                        \in FeedbackFields <=> ~meaning_ok

C10_Witness ==
    /\ Submitted
    /\ is_dictation
    /\ session_state.results[SubmitIdx + 1] = "False"
    /\ is_correct(ev.w.user_meaning, SubmitRow.Korean)
    /\ FeedbackFields = {[label |-> "Spelling", value |-> SubmitRow.English]}

\* the grades of the questions other than the one at index idx are the same
\* in results and in after
OthersKept(results, after, idx) ==
    /\ Len(after) = Len(results)
    /\ \A i \in 1..Len(results) : i # idx + 1 => after[i] = results[i]

\* C11: a submission overwrites the grade of the current question with the
\* new outcome whatever the grade was, changes the grade of no other
\* question, and a grade becomes Unanswered again only by a reset or by
\* loading a dataset.
C11_GradeOverwritten ==
    [][/\ ev'.op = "submit"
            => /\ SaidRight' <=> ~SaidWrong'
               /\ session_state'.results[session_state.current_index + 1]
                    = (IF SaidRight' THEN "True" ELSE "False")
               /\ OthersKept(session_state.results, session_state'.results,
                             session_state.current_index)
       /\ (\E i \in 1..Len(session_state.results) :
                /\ session_state.results[i] # "None"
                /\ i <= Len(session_state'.results)
                    => session_state'.results[i] = "None")
            => ev'.op \in {"reset", "upload"}]_vars

C11_Witness ==
    /\ Submitted /\ SaidWrong
    /\ prev.grade = "True"
    /\ session_state.results[SubmitIdx + 1] = "False"
    /\ \E i \in 1..Len(session_state.results) :
            i # SubmitIdx + 1 /\ session_state.results[i] = "True"

\* C12: a change of mode leaves the grades, the score, current_index and
\* the dataset unchanged, and a question graded Correct stays Correct until
\* a submission, a reset or a load.
C12_ModeKeeps ==
    [][/\ ev'.op = "mode"
            => /\ mode' # mode
               /\ session_state'.results = session_state.results
               /\ session_state'.score = session_state.score
               /\ session_state'.current_index = session_state.current_index
               /\ session_state'.data = session_state.data
       /\ (\E i \in 1..Len(session_state.results) :
                /\ session_state.results[i] = "True"
                /\ i <= Len(session_state'.results)
                    => session_state'.results[i] # "True")
            => ev'.op \in {"submit", "reset", "upload"}]_vars

C12_Witness ==
    /\ ev.op = "mode"
    /\ is_dictation
    /\ MainShown
    /\ prev.grade = "True"
    /\ session_state.results[session_state.current_index + 1] = "True"
    /\ session_state.current_index > 0
    /\ session_state.score = prev.score
    /\ session_state.score > 0

\* C13: a click on question button i sets current_index to i and increments
\* input_key by one, also when i is the current index, and leaves score,
\* grades and dataset unchanged; the buttons offered are those of the
\* indices 0..total-1 of the dataset.
C13_GoTo ==
    [][/\ session_state.data # <<>>
            => NavButtons(session_state) = 0..(len(session_state.data[1]) - 1)
       /\ ev'.op = "nav"
            => /\ ev'.w.nav \in 0..(len(session_state.data[1]) - 1)
               /\ session_state'.current_index = ev'.w.nav
               /\ session_state'.input_key = session_state.input_key + 1
               /\ session_state'.score = session_state.score
               /\ session_state'.results = session_state.results
               /\ session_state'.data = session_state.data
               /\ session_state'.total_words = session_state.total_words]_vars

C13_Witness ==
    /\ ev.op = "nav"
    /\ ev.w.nav = prev.current_index
    /\ ev.w.nav > 0
    /\ session_state.current_index = ev.w.nav
    /\ session_state.input_key = prev.input_key + 1
    /\ session_state.score > 0

\* the interactions that rerun the script without a submission, a click on
\* a question button, on Reset Quiz or on Next Question, and without a file
\* newly put into the uploader
Rerender == {"audio", "hint", "mode", "remove"}

\* C17: a rerun of the script that carries no mutating action leaves data,
\* total_words, current_index, score, results and input_key unchanged,
\* however often it is repeated, also with a loaded file in the uploader.
C17_RerenderKeeps ==
    [][ev'.op \in Rerender
        => /\ session_state'.data = session_state.data
           /\ session_state'.total_words = session_state.total_words
           /\ session_state'.current_index = session_state.current_index
           /\ session_state'.score = session_state.score
           /\ session_state'.results = session_state.results
           /\ session_state'.input_key = session_state.input_key]_vars

C17_Witness ==
    /\ ev.op = "hint"
    /\ uploaded_file # <<>>
    /\ session_state.last_file = uploaded_file[1].name
    /\ session_state.data[1].rows = uploaded_file[1].content.rows
    /\ prev.grade = "True"
    /\ session_state.results[session_state.current_index + 1] = "True"
    /\ session_state.score = prev.score
    /\ session_state.input_key = prev.input_key
    /\ session_state.input_key > 0

\* C18: with a non-empty dataset, Next Question before the last index
\* increments current_index and input_key by one each and leaves score and
\* grades unchanged, so that total_words - 1 - current_index drops by one
\* per click; at the last index it reports the end of the quiz.
C18_NextAdvances ==
    [][(ev'.op = "next" /\ session_state.total_words > 0)
        => IF session_state.current_index < session_state.total_words - 1
           THEN /\ session_state'.current_index = session_state.current_index + 1
                /\ session_state'.input_key = session_state.input_key + 1
                /\ session_state'.score = session_state.score
                /\ session_state'.results = session_state.results
                /\ session_state'.total_words = session_state.total_words
                /\ ~Completed(session_state.score, session_state.total_words)'
           ELSE /\ session_state.current_index = session_state.total_words - 1
                /\ Completed(session_state.score, session_state.total_words)']_vars

C18_Witness ==
    /\ ev.op = "next"
    /\ prev.current_index < prev.total_words - 1
    /\ session_state.current_index = prev.current_index + 1
    /\ session_state.current_index = session_state.total_words - 1
    /\ session_state.input_key = prev.input_key + 1
    /\ prev.grade = "True"
    /\ session_state.score = prev.score
    /\ session_state.score > 0

\* C19: in every reachable state 0 <= score <= total_words, so that neither
\* the progress line nor the final message shows a score above the number
\* of words.
C19_ScoreAtMostTotal ==
    session_state.data # <<>>
        => /\ 0 <= session_state.score
           /\ session_state.score <= session_state.total_words

\* a file newly put into the uploader was loaded over a question then shown
LoadedOverQuestion ==
    /\ ev.op = "upload"
    /\ load_data(uploaded_file[1].content).df # <<>>
    /\ prev.last_file # uploaded_file[1].name
    /\ prev.loaded
    /\ prev.current_index < prev.total_words
    /\ MainShown

\* C20: a click on a question button, an advancing Next Question, a reset
\* and a successful load of a new dataset each change the pair
\* (current_index, input_key) that names the answer form, and input_key
\* never decreases.
C20_FormRenamed ==
    /\ session_state.input_key >= prev.input_key
    /\ (\/ ev.op \in {"nav", "reset"}
        \/ ev.op = "next" /\ prev.current_index < prev.total_words - 1
        \/ LoadedOverQuestion)
        => <<session_state.current_index, session_state.input_key>>
                # <<prev.current_index, prev.input_key>>

\* the meaning "sa gwa", the word sagwa with one space inside, was
\* submitted in Reading mode for the item (apple, sagwa)
SpaceVariantSubmitted ==
    /\ Submitted
    /\ ~is_dictation
    /\ SubmitRow = [English |-> apple, Korean |-> sagwa]
    /\ ev.w.user_meaning = <<"sa", " ", "gwa">>

\* C15 as stated: in Reading mode, for the item (apple, sagwa), the meaning
\* "sa gwa" is graded Correct at the threshold 0.85.
C15_SpaceVariantCorrect ==
    SpaceVariantSubmitted
        => /\ session_state.results[SubmitIdx + 1] = "True"
           /\ SaidRight

\* C15, amended: in Reading mode, for the item (apple, sagwa), the meaning
\* "sa gwa" is graded Incorrect at the threshold 0.85: clean_text keeps the
\* space inside the text and the ratio of "sa gwa" to "sagwa" is 4/5.
C15_SpaceVariantIncorrect ==
    SpaceVariantSubmitted
        => /\ clean_text(lower(ev.w.user_meaning)) = <<"sa", " ", "gwa">>
           /\ ratio(clean_text(lower(ev.w.user_meaning)),
                    clean_text(lower(SubmitRow.Korean))) = <<4, 5>>
           /\ session_state.results[SubmitIdx + 1] = "False"
           /\ SaidWrong
           /\ session_state.score = prev.score

C15_Witness ==
    /\ SpaceVariantSubmitted
    /\ prev.grade = "True"
    /\ prev.score = 1
    /\ session_state.results[SubmitIdx + 1] = "False"
    /\ session_state.score = 1

\* s without its punctuation characters, and s without the spaces at its ends
NotPunct(c) == c \notin PunctChars
NoPunct(s) == SelectSeq(s, NotPunct)
Inner(s) ==
    LET at == {i \in 1..Len(s) : s[i] \notin SpaceChars}
    IN  IF at = {} THEN <<>>
        ELSE SubSeq(s, CHOOSE i \in at : \A j \in at : i <= j,
                       CHOOSE i \in at : \A j \in at : i >= j)

\* a letter in its two cases
CasePairs == {<<"A", "a">>, <<"B", "b">>, <<"N", "n">>}
SameLetter(c, d) == c = d \/ <<c, d>> \in CasePairs \/ <<d, c>> \in CasePairs

\* s1 and s2 differ only in letter case, in punctuation characters and in
\* the spaces at their ends
DifferOnly(s1, s2) ==
    LET x == Inner(NoPunct(s1))
        y == Inner(NoPunct(s2))
    IN  /\ Len(x) = Len(y)
        /\ \A i \in 1..Len(x) : SameLetter(x[i], y[i])

\* C14: is_correct(s1, s2) is true for all texts s1, s2 that differ only in
\* letter case, punctuation characters or leading and trailing whitespace;
\* in particular is_correct(s, s) is true for every s, the empty text
\* included.
C14_CasePunctSpace ==
    (call.returned # "None" /\ DifferOnly(call.user_input, call.answer))
        => call.returned = "True"

C14_Witness ==
    /\ call.returned = "True"
    /\ call.user_input = <<" ", "A", "!", "b", " ">>
    /\ call.answer = <<"a", "b">>
    /\ DifferOnly(call.user_input, call.answer)

\* C16: the ratio is_correct computes is symmetric, ratio(a, b) =
\* ratio(b, a) for the cleaned texts a and b, and so is is_correct:
\* is_correct(a, b) = is_correct(b, a).
C16_Symmetric ==
    call.returned # "None"
        => /\ call.similarity # <<>>
                => call.similarity = ratio(clean_text(lower(call.answer)),
                                           clean_text(lower(call.user_input)))
           /\ call.returned = "True"
                <=> is_correct(call.answer, call.user_input)

====
